---- MODULE Spec2Model ----
(***************************************************************************)
(* A model of the terminal engine of terminal-engine v0.4.0                *)
(* (src/terminalEngine.py): the character grid with its differential       *)
(* renderer, the key capture thread with the pressed/released rotation,    *)
(* and the fixed-timestep loop of run() with its terminal session.         *)
(*                                                                         *)
(* Time is counted in clock units of 1/UnitsPerSecond second.  Key sets    *)
(* are Python set objects: the attributes keysPressed and keysReleased     *)
(* hold references into a small heap, because clearKeyStates rebinds the   *)
(* attributes and the capture thread may hold a reference across it.       *)
(***************************************************************************)
EXTENDS Integers, Sequences, FiniteSets, TLC

VARIABLES
    pc,             \* position of the main thread in run()
    running,        \* self.running
    lag,            \* run()'s local lag
    elapsed,        \* run()'s local elapsed
    updateCount,    \* run()'s local updateCount
    exc,            \* the exception in flight in the main thread, or "none"
    cursor,         \* terminal cursor: "shown" | "hidden"
    ttyMode,        \* terminal input mode: "cooked" | "raw"
    oldSettings,    \* self.oldSettings
    atexitReg,      \* restoreTerminal is registered with atexit
    log,            \* terminal and session events, in order
    tpc,            \* position of the capture thread in inputHandler()
    tkey,           \* inputHandler's local key
    tref,           \* the set object inputHandler loaded for add: {} or {object id}
    inputThread,    \* self.inputThread: "None" or "thread"
    heap,           \* set objects: object id -> contents
    keysPressed,    \* self.keysPressed (an object id)
    keysReleased,   \* self.keysReleased (an object id)
    buffer,         \* self.buffer
    prevBuffer,     \* self.prevBuffer
    out,            \* what render() wrote to stdout since buffer last changed
    lag0,           \* history: lag before the latest "lag += elapsed"
    calls,          \* history: update calls made in the current outer iteration
    dts,            \* history: the dt arguments of those calls
    rotSnapshot,    \* history: contents of pressed when clearKeyStates last ran
    rotations,      \* history: clearKeyStates calls since the last capture (0..2)
    lastCall,       \* history: the kind of method last called on the idle engine
    lastArgs,       \* history: the arguments of the last recorded drawing call
    frameElapsed,   \* run()'s local frameElapsed
    slept,          \* history: the duration run() last passed to time.sleep, or 0
    events,         \* history: what run() has called in the current outer iteration
    stops,          \* history: how many times running went from true to false
    screen,         \* the terminal: the glyph shown at each cell of the grid's area
    atDrain,        \* history: the keys in pressed when the current drain began
    seenAll,        \* history: those of them every update call of this drain saw pressed
    stoppedAt       \* history: the update call of its drain that cleared running, or 0

vars == <<pc, running, lag, elapsed, updateCount, exc, cursor, ttyMode,
          oldSettings, atexitReg, log, tpc, tkey, tref, inputThread, heap, keysPressed,
          keysReleased, buffer, prevBuffer, out, lag0, calls, dts,
          rotSnapshot, rotations, lastCall, lastArgs, frameElapsed, slept,
          events, stops, screen, atDrain, seenAll, stoppedAt>>

seenVars == <<atDrain, seenAll, stoppedAt>>
loopVars == <<frameElapsed, slept, events, stops, seenVars>>
mainVars == <<pc, running, lag, elapsed, updateCount, exc, lag0, calls, dts, loopVars>>
termVars == <<cursor, ttyMode, oldSettings, atexitReg, log>>
threadVars == <<tpc, tkey, tref, inputThread>>
keyVars == <<heap, keysPressed, keysReleased, rotSnapshot, rotations>>
gridVars == <<buffer, prevBuffer, out, lastCall, lastArgs, screen>>

(***************************************************************************)
(* Bounds of the model and constants of the program.                       *)
(***************************************************************************)
UnitsPerSecond == 120   \* clock units per second
tickRate == 60          \* __init__'s default tickRate
CatchUpCap == 5         \* the literal 5 of the drain loop
width == 3              \* grid width
height == 2             \* grid height
MaxInk == 2             \* most non-blank cells a game draws into the grid
MaxLag == 6             \* cap on lag in the short-clock specifications
NObj == 3               \* set objects that can be alive at once

tickDuration == UnitsPerSecond \div tickRate

\* 0.05 s and 10 s in clock units
Elapsed50ms == (5 * UnitsPerSecond) \div 100
Stall10s == 10 * UnitsPerSecond
MaxLagStall == Stall10s + MaxLag

Obj == 1..NObj
RawChars == {"q", "Q", "a"}
ApiChars == {"q", "Q", "a", "A", "d"}
Blank == " "

\* faulty variant of the capture: the character is kept as read
LowerNot(c) == c

\* str.lower() on one character
Lower(c) == CASE c = "Q" -> "q" [] c = "A" -> "a" [] OTHER -> c
Keys == {Lower(c) : c \in RawChars \cup ApiChars}

Min(a, b) == IF a <= b THEN a ELSE b

(***************************************************************************)
(* Key state.                                                              *)
(***************************************************************************)
Pressed == heap[keysPressed]
Released == heap[keysReleased]

isKeyPressed(k) == k \in Pressed
isKeyReleased(k) == k \in Released

\* an unreferenced object is collected: its contents are dropped
Collect(h, live) == [o \in Obj |-> IF o \in live THEN h[o] ELSE {}]

\* set(): a fresh object, distinct from every live one
NewSet(live) == CHOOSE o \in Obj : o \notin live /\ \A p \in Obj : p \notin live => o <= p

\* self.keysPressed.add(key) once self.keysPressed has been loaded as object o
SetAdd(h, o, k) == [h EXCEPT ![o] = @ \cup {k}]

(***************************************************************************)
(* The grid.                                                               *)
(***************************************************************************)
Rows == 0..(height - 1)
Cols == 0..(width - 1)
BlankGrid == [y \in Rows |-> [x \in Cols |-> Blank]]
Ink(g) == Cardinality({p \in Rows \X Cols : g[p[1]][p[2]] # Blank})

\* a dtype=str array of one-character cells keeps the first character
U1(s) == s[1]

\* faulty variant of drawPixel: no lower bound, so that a negative index
\* counts from the end of the axis as numpy indexing does
drawPixelWrapping(g, x, y, char) ==
    IF x < width /\ y < height
    THEN [g EXCEPT ![y % height][x % width] = U1(char)]
    ELSE g

\* drawPixel(x, y, char) on grid g
drawPixel(g, x, y, char) ==
    IF 0 <= x /\ x < width /\ 0 <= y /\ y < height
    THEN [g EXCEPT ![y][x] = U1(char)]
    ELSE g

\* faulty variant of drawText: character i goes to column x + i, counting from 1
RECURSIVE drawTextFromShifted(_, _, _, _, _)
drawTextFromShifted(g, x, y, text, i) ==
    IF i > Len(text) THEN g
    ELSE drawTextFromShifted(drawPixel(g, x + i, y, <<text[i]>>), x, y, text, i + 1)

\* drawText(x, y, text) on grid g
RECURSIVE drawTextFrom(_, _, _, _, _)
drawTextFrom(g, x, y, text, i) ==
    IF i > Len(text) THEN g
    ELSE drawTextFrom(drawPixel(g, x + (i - 1), y, <<text[i]>>), x, y, text, i + 1)
drawText(g, x, y, text) == drawTextFrom(g, x, y, text, 1)

\* np.where(buffer != prevBuffer): the changed positions in row-major order
CellAt(i) == <<(i - 1) \div width, (i - 1) % width>>
AllCells == [i \in 1..(width * height) |-> CellAt(i)]
Changed(b, p, c) == b[c[1]][c[2]] # p[c[1]][c[2]]
\* faulty variant of the diff: a cell that became blank is not emitted
DiffCellsInkOnly(b, p) ==
    SelectSeq(AllCells, LAMBDA c : Changed(b, p, c) /\ b[c[1]][c[2]] # Blank)

\* the changed cells, in row-major order
DiffCells(b, p) == SelectSeq(AllCells, LAMBDA c : Changed(b, p, c))

\* faulty variant of the cursor-position command: 0-indexed row and column
EmitZeroBased(b, c) == [row |-> c[1], col |-> c[2], glyph |-> b[c[1]][c[2]]]

\* f"\033[{y+1};{x+1}H{self.buffer[y, x]}"
Emit(b, c) == [row |-> c[1] + 1, col |-> c[2] + 1, glyph |-> b[c[1]][c[2]]]
Emissions(b, p) == [i \in 1..Len(DiffCells(b, p)) |-> Emit(b, DiffCells(b, p)[i])]

\* no drawing call recorded
NoArgs == [op |-> "none", x |-> 0, y |-> 0, text |-> <<>>]

\* the terminal after the emissions e were written to it: each puts its
\* glyph at its row and column (1-based), a later one over an earlier one
LastAt(e, x, y) ==
    CHOOSE i \in 1..Len(e) :
        /\ e[i].row = y + 1 /\ e[i].col = x + 1
        /\ \A j \in 1..Len(e) : (e[j].row = y + 1 /\ e[j].col = x + 1) => j <= i
Paint(scr, e) ==
    [y \in Rows |-> [x \in Cols |->
        IF \E i \in 1..Len(e) : e[i].row = y + 1 /\ e[i].col = x + 1
        THEN e[LastAt(e, x, y)].glyph
        ELSE scr[y][x]]]

(***************************************************************************)
(* Construction: the state after TerminalEngine.__init__.                  *)
(***************************************************************************)
Init ==
    /\ pc = "idle"
    /\ running = FALSE
    /\ lag = 0
    /\ elapsed = 0
    /\ updateCount = 0
    /\ exc = "none"
    /\ cursor = "shown"
    /\ ttyMode = "cooked"
    /\ oldSettings = "cooked"
    /\ atexitReg = FALSE
    /\ log = <<>>
    /\ tpc = "none"
    /\ tkey = ""
    /\ tref = {}
    /\ inputThread = "None"
    /\ heap = [o \in Obj |-> {}]
    /\ keysPressed = 1
    /\ keysReleased = 2
    /\ buffer = BlankGrid
    /\ prevBuffer = BlankGrid
    /\ out = <<>>
    /\ lag0 = 0
    /\ calls = 0
    /\ dts = {}
    /\ rotSnapshot = {}
    /\ rotations = 0
    /\ lastCall = "none"
    /\ lastArgs = NoArgs
    /\ frameElapsed = 0
    /\ slept = 0
    /\ events = <<>>
    /\ stops = 0
    /\ screen = BlankGrid
    /\ atDrain = {}
    /\ seenAll = {}
    /\ stoppedAt = 0

(***************************************************************************)
(* The capture thread: inputHandler, started by startInputThread.          *)
(***************************************************************************)
Holding == tref

\* line 57: while self.running
ThreadTest ==
    /\ tpc = "test"
    /\ tpc' = IF running THEN "poll" ELSE "dead"
    /\ UNCHANGED <<tkey, tref, inputThread>>
    /\ UNCHANGED <<mainVars, termVars, keyVars, gridVars>>

\* faulty variant of the poll: select waits with no timeout, so that with
\* nothing to read it never returns
ThreadBlocked ==
    /\ tpc = "poll"
    /\ FALSE
    /\ UNCHANGED vars

\* lines 63-64, 67: select times out with nothing to read, then the sleep
ThreadTimeout ==
    /\ tpc = "poll"
    /\ tpc' = "test"
    /\ UNCHANGED <<tkey, tref, inputThread>>
    /\ UNCHANGED <<mainVars, termVars, keyVars, gridVars>>

\* lines 63-66: a character c is ready; key = read(1).lower(), and
\* self.keysPressed is loaded for the call of add
ThreadRead(C) ==
    /\ tpc = "poll"
    /\ \E c \in C :
        /\ tkey' = Lower(c)
        /\ tref' = {keysPressed}
    /\ tpc' = "add"
    /\ UNCHANGED inputThread
    /\ UNCHANGED <<mainVars, termVars, keyVars, gridVars>>

\* lines 63-65: select or read(1) raises (a read failure, a byte that does
\* not decode); inputHandler has no handler, so the thread ends with the
\* exception and self.running is left as it is
ThreadReadError ==
    /\ tpc = "poll"
    /\ tpc' = "dead"
    /\ UNCHANGED <<tkey, tref, inputThread>>
    /\ UNCHANGED <<mainVars, termVars, keyVars, gridVars>>

\* lines 66-67: add(key) on the loaded set object, then the sleep
ThreadAdd ==
    /\ tpc = "add"
    /\ \E o \in tref :
        heap' = Collect(SetAdd(heap, o, tkey), {keysPressed, keysReleased})
    /\ rotations' = 0
    /\ tpc' = "test"
    /\ tkey' = ""
    /\ tref' = {}
    /\ UNCHANGED inputThread
    /\ UNCHANGED <<keysPressed, keysReleased, rotSnapshot>>
    /\ UNCHANGED <<mainVars, termVars, gridVars>>

(***************************************************************************)
(* The main thread: run().                                                 *)
(***************************************************************************)
\* lines 102-104: running = True, clearScreen (the terminal is blank), hide
\* the cursor
RunStart ==
    /\ pc = "idle"
    /\ running' = TRUE
    /\ cursor' = "hidden"
    /\ log' = Append(log, "hide")
    /\ pc' = "setraw"
    /\ UNCHANGED <<lag, elapsed, updateCount, exc, lag0, calls, dts>>
    /\ UNCHANGED loopVars
    /\ UNCHANGED <<ttyMode, oldSettings, atexitReg>>
    /\ screen' = BlankGrid
    /\ UNCHANGED <<buffer, prevBuffer, out, lastCall, lastArgs>>
    /\ UNCHANGED <<threadVars, keyVars>>

\* lines 106-107: tty.setraw succeeds, restoreTerminal is registered
SetRawMode ==
    /\ pc = "setraw"
    /\ ttyMode' = "raw"
    /\ atexitReg' = TRUE
    /\ log' = Append(log, "raw")
    /\ pc' = "start"
    /\ UNCHANGED <<running, lag, elapsed, updateCount, exc, lag0, calls, dts>>
    /\ UNCHANGED loopVars
    /\ UNCHANGED <<cursor, oldSettings>>
    /\ UNCHANGED <<threadVars, keyVars, gridVars>>

\* line 106: tty.setraw raises termios.error; nothing in run() catches it
SetRawModeFails ==
    /\ pc = "setraw"
    /\ exc' = "setraw"
    /\ pc' = "exiting"
    /\ UNCHANGED <<running, lag, elapsed, updateCount, lag0, calls, dts>>
    /\ UNCHANGED loopVars
    /\ UNCHANGED <<termVars, threadVars, keyVars, gridVars>>

\* lines 109-112: the capture thread starts; previousTime, lag = 0.0
StartInputThread ==
    /\ pc = "start"
    /\ tpc' = "test"
    /\ inputThread' = "thread"
    /\ log' = Append(log, "start")
    /\ lag' = 0
    /\ pc' = "loop"
    /\ UNCHANGED <<running, elapsed, updateCount, exc, lag0, calls, dts>>
    /\ UNCHANGED loopVars
    /\ UNCHANGED <<cursor, ttyMode, oldSettings, atexitReg>>
    /\ UNCHANGED <<tkey, tref, keyVars, gridVars>>

\* line 72: Thread.start raises; nothing in run() catches it
StartInputThreadFails ==
    /\ pc = "start"
    /\ exc' = "thread"
    /\ pc' = "exiting"
    /\ UNCHANGED <<running, lag, elapsed, updateCount, lag0, calls, dts>>
    /\ UNCHANGED loopVars
    /\ UNCHANGED <<termVars, threadVars, keyVars, gridVars>>

\* line 115: while self.running
LoopTest ==
    /\ pc = "loop"
    /\ pc' = IF running THEN "measure" ELSE "finally"
    /\ UNCHANGED <<running, lag, elapsed, updateCount, exc, lag0, calls, dts>>
    /\ UNCHANGED loopVars
    /\ UNCHANGED <<termVars, threadVars, keyVars, gridVars>>

\* lines 116-121: the clock is read, elapsed is added to lag
Measure(E, cap) ==
    /\ pc = "measure"
    /\ \E e \in E :
        /\ lag + e <= cap
        /\ elapsed' = e
        /\ lag' = lag + e
    /\ lag0' = lag
    /\ updateCount' = 0
    /\ calls' = 0
    /\ dts' = {}
    /\ events' = <<>>
    /\ frameElapsed' = 0
    /\ slept' = 0
    /\ pc' = "drain"
    /\ atDrain' = Pressed
    /\ seenAll' = Pressed
    /\ UNCHANGED stoppedAt
    /\ UNCHANGED <<running, exc, stops>>
    /\ UNCHANGED <<termVars, threadVars, keyVars, gridVars>>

\* faulty variant of the try/finally: an error leaves run() at once
OnRaiseNoFinally == "exiting"

\* lines 114, 137: an error raised inside the try goes to the finally clause
OnRaise == "finally"

\* faulty variants of the drain guard: the cap forgotten; > written for >=
DrainGuardNoCap(l, n) == l >= tickDuration
DrainGuardStrict(l, n) == l > tickDuration /\ n < CatchUpCap

\* faulty variant of the drain loop's test: it tests running as well
DrainGuardRunning(l, n) == running /\ l >= tickDuration /\ n < CatchUpCap

\* line 122: while lag >= self.tickDuration and updateCount < 5
DrainGuard(l, n) == l >= tickDuration /\ n < CatchUpCap

\* line 123: the argument of update
UpdateArg == tickDuration

\* faulty variant of the decrement: the lag is thrown away instead
LagDiscarded(l) == 0

\* line 124: lag -= self.tickDuration
LagAfterTick(l) == l - tickDuration

\* the cells a game's sprite is drawn at, and its glyph
SpriteCells == {<<0, 0>>, <<width - 1, height - 1>>}
Sprite == <<"@">>

\* lines 122-125: one tick.  The game's update either returns (having left
\* running alone, cleared it, cleared it on the quit key, or drawn its
\* sprite with drawPixel) or raises.
Tick(B) ==
    /\ pc = "drain"
    /\ DrainGuard(lag, updateCount)
    /\ calls' = calls + 1
    /\ dts' = dts \cup {UpdateArg}
    /\ events' = Append(events, "update")
    /\ \E b \in B :
        \/ /\ b = "raise"
           /\ exc' = "update"
           /\ pc' = OnRaise
           /\ UNCHANGED <<running, lag, updateCount, buffer, out>>
        \/ /\ b = "draw"
           /\ \E c \in SpriteCells : buffer' = drawPixel(buffer, c[1], c[2], Sprite)
           /\ out' = <<>>
           /\ lag' = LagAfterTick(lag)
           /\ updateCount' = updateCount + 1
           /\ UNCHANGED <<running, pc, exc>>
        \/ /\ b \notin {"raise", "draw"}
           /\ running' = CASE b = "quit" -> FALSE
                           [] b = "quitOnQ" -> running /\ ~isKeyPressed("q")
                           [] OTHER -> running
           /\ lag' = LagAfterTick(lag)
           /\ updateCount' = updateCount + 1
           /\ UNCHANGED <<pc, exc, buffer, out>>
    /\ stops' = IF running /\ ~running' THEN stops + 1 ELSE stops
    /\ seenAll' = seenAll \cap Pressed
    /\ UNCHANGED atDrain
    /\ stoppedAt' = IF running /\ ~running' THEN calls' ELSE stoppedAt
    /\ UNCHANGED <<elapsed, lag0, frameElapsed, slept>>
    /\ UNCHANGED <<prevBuffer, lastCall, lastArgs, screen>>
    /\ UNCHANGED <<termVars, threadVars, keyVars>>

\* faulty variant of TetrisGame.update: line 218 returns, and the update
\* goes on to its own render() and clearKeyStates() of lines 232-234
TetrisUpdateRenders ==
    /\ pc = "drain"
    /\ DrainGuard(lag, updateCount)
    /\ calls' = calls + 1
    /\ dts' = dts \cup {UpdateArg}
    /\ events' = events \o <<"update", "render", "clearKeyStates">>
    /\ out' = Emissions(BlankGrid, prevBuffer)
    /\ prevBuffer' = BlankGrid
    /\ buffer' = BlankGrid
    /\ lag' = LagAfterTick(lag)
    /\ updateCount' = updateCount + 1
    /\ seenAll' = seenAll \cap Pressed
    /\ UNCHANGED <<atDrain, stoppedAt>>
    /\ UNCHANGED <<pc, running, exc, elapsed, lag0, frameElapsed, slept, stops>>
    /\ screen' = Paint(screen, out')
    /\ UNCHANGED <<lastCall, lastArgs>>
    /\ UNCHANGED <<termVars, threadVars, keyVars>>

\* tetris.py lines 206-234, TetrisGame.update as the drain loop calls it:
\* the buffer is filled with blanks (line 207), then move_piece, which takes
\* one argument (line 89), is called with two (line 218, or line 212 or 214
\* on a key) and raises TypeError; lines 220-234 are never reached
TetrisUpdate ==
    /\ pc = "drain"
    /\ DrainGuard(lag, updateCount)
    /\ calls' = calls + 1
    /\ dts' = dts \cup {UpdateArg}
    /\ events' = Append(events, "update")
    /\ buffer' = BlankGrid
    /\ out' = <<>>
    /\ exc' = "update"
    /\ pc' = OnRaise
    /\ seenAll' = seenAll \cap Pressed
    /\ UNCHANGED <<atDrain, stoppedAt>>
    /\ UNCHANGED <<running, lag, elapsed, updateCount, lag0, frameElapsed, slept, stops>>
    /\ UNCHANGED <<prevBuffer, lastCall, lastArgs, screen>>
    /\ UNCHANGED <<termVars, threadVars, keyVars>>

\* old/main.py lines 360-368, FlappyBirdGame.update in the game-over state
\* with "r" pressed (flappyBird.py lines 22-30 are the same): it calls
\* self.__init__(self.width, self.height), and so TerminalEngine.__init__
\* (terminalEngine.py lines 18-35) runs again on the engine of the running
\* session: new blank grids, running = False, new empty key sets,
\* inputThread = None, and oldSettings read again from the terminal as it
\* is now
RestartUpdate ==
    /\ pc = "drain"
    /\ DrainGuard(lag, updateCount)
    /\ isKeyPressed("r")
    /\ calls' = calls + 1
    /\ dts' = dts \cup {UpdateArg}
    /\ events' = Append(events, "update")
    /\ log' = Append(log, "restart")
    /\ buffer' = BlankGrid
    /\ prevBuffer' = BlankGrid
    /\ out' = <<>>
    /\ running' = FALSE
    /\ stops' = IF running THEN stops + 1 ELSE stops
    /\ keysPressed' = NewSet(Holding)
    /\ keysReleased' = NewSet(Holding \cup {keysPressed'})
    /\ heap' = Collect(heap, Holding)
    /\ inputThread' = "None"
    /\ oldSettings' = ttyMode
    /\ lag' = LagAfterTick(lag)
    /\ updateCount' = updateCount + 1
    /\ seenAll' = seenAll \cap Pressed
    /\ UNCHANGED atDrain
    /\ stoppedAt' = IF running /\ ~running' THEN calls' ELSE stoppedAt
    /\ UNCHANGED <<pc, exc, elapsed, lag0, frameElapsed, slept>>
    /\ UNCHANGED <<cursor, ttyMode, atexitReg>>
    /\ UNCHANGED <<tpc, tkey, tref>>
    /\ UNCHANGED <<rotSnapshot, rotations>>
    /\ UNCHANGED <<lastCall, lastArgs, screen>>

\* faulty variant of the end of the drain: render is skipped
DrainDoneSkipsRender ==
    /\ pc = "drain"
    /\ ~DrainGuard(lag, updateCount)
    /\ pc' = "rotate1"
    /\ UNCHANGED <<running, lag, elapsed, updateCount, exc, lag0, calls, dts>>
    /\ UNCHANGED loopVars
    /\ UNCHANGED <<termVars, threadVars, keyVars, gridVars>>

\* faulty variant of the end of the drain: when the cap stopped it, the
\* ticks still owed are dropped from lag
DrainDoneDiscards ==
    /\ pc = "drain"
    /\ ~DrainGuard(lag, updateCount)
    /\ lag' = lag % tickDuration
    /\ pc' = "render"
    /\ UNCHANGED <<running, elapsed, updateCount, exc, lag0, calls, dts>>
    /\ UNCHANGED loopVars
    /\ UNCHANGED <<termVars, threadVars, keyVars, gridVars>>

\* line 122: the drain loop ends
DrainDone ==
    /\ pc = "drain"
    /\ ~DrainGuard(lag, updateCount)
    /\ pc' = "render"
    /\ UNCHANGED <<running, lag, elapsed, updateCount, exc, lag0, calls, dts>>
    /\ UNCHANGED loopVars
    /\ UNCHANGED <<termVars, threadVars, keyVars, gridVars>>

\* faulty variant of render: the grids swapped instead of copied
RenderBufferSwapped(b, p) == p

\* lines 48-54: what render() writes and leaves in the two grids
RenderOut(b, p) == Emissions(b, p)
RenderPrev(b, p) == b
RenderBuffer(b, p) == b

\* line 127: self.render()
RunRender ==
    /\ pc = "render"
    /\ out' = RenderOut(buffer, prevBuffer)
    /\ prevBuffer' = RenderPrev(buffer, prevBuffer)
    /\ buffer' = RenderBuffer(buffer, prevBuffer)
    /\ pc' = "rotate1"
    /\ events' = Append(events, "render")
    /\ screen' = Paint(screen, out')
    /\ UNCHANGED <<lastCall, lastArgs>>
    /\ UNCHANGED <<running, lag, elapsed, updateCount, exc, lag0, calls, dts>>
    /\ UNCHANGED <<frameElapsed, slept, stops, seenVars>>
    /\ UNCHANGED <<termVars, threadVars, keyVars>>

\* lines 52-53: a write to stdout raises part-way; prevBuffer is not copied
RunRenderFails ==
    /\ pc = "render"
    /\ \E n \in 0..Len(RenderOut(buffer, prevBuffer)) :
        out' = SubSeq(RenderOut(buffer, prevBuffer), 1, n)
    /\ exc' = "render"
    /\ pc' = OnRaise
    /\ UNCHANGED <<running, lag, elapsed, updateCount, lag0, calls, dts>>
    /\ UNCHANGED loopVars
    /\ screen' = Paint(screen, out')
    /\ UNCHANGED <<buffer, prevBuffer, lastCall, lastArgs>>
    /\ UNCHANGED <<termVars, threadVars, keyVars>>

\* line 86: self.keysReleased = self.keysPressed
Rebind1 ==
    /\ keysReleased' = keysPressed
    /\ heap' = Collect(heap, {keysPressed} \cup Holding)
    /\ rotSnapshot' = Pressed
    /\ UNCHANGED <<keysPressed, rotations>>

\* line 87: self.keysPressed = set()
Rebind2 ==
    /\ keysPressed' = NewSet({keysReleased} \cup Holding)
    /\ rotations' = Min(rotations + 1, 2)
    /\ UNCHANGED <<heap, keysReleased, rotSnapshot>>

\* faulty variant of the rotation: skipped when no tick fired
RotateAfterTicksOnly ==
    /\ pc = "rotate1"
    /\ IF calls = 0
       THEN /\ pc' = "clear"
            /\ events' = events
            /\ UNCHANGED keyVars
       ELSE /\ Rebind1
            /\ pc' = "rotate2"
            /\ events' = Append(events, "clearKeyStates")
    /\ UNCHANGED <<running, lag, elapsed, updateCount, exc, lag0, calls, dts>>
    /\ UNCHANGED <<frameElapsed, slept, stops, seenVars>>
    /\ UNCHANGED <<termVars, threadVars, gridVars>>

\* line 128: self.clearKeyStates(), its first statement
Rotate1 ==
    /\ pc = "rotate1"
    /\ Rebind1
    /\ pc' = "rotate2"
    /\ events' = Append(events, "clearKeyStates")
    /\ UNCHANGED <<running, lag, elapsed, updateCount, exc, lag0, calls, dts>>
    /\ UNCHANGED <<frameElapsed, slept, stops, seenVars>>
    /\ UNCHANGED <<termVars, threadVars, gridVars>>

\* line 128: self.clearKeyStates(), its second statement
Rotate2 ==
    /\ pc = "rotate2"
    /\ Rebind2
    /\ pc' = "clear"
    /\ UNCHANGED <<running, lag, elapsed, updateCount, exc, lag0, calls, dts>>
    /\ UNCHANGED loopVars
    /\ UNCHANGED <<termVars, threadVars, gridVars>>

\* line 131: self.buffer.fill(" ")
\* faulty variant of run(): the buffer is not cleared after the render
ClearBufferSkipped ==
    /\ pc = "clear"
    /\ buffer' = buffer
    /\ out' = <<>>
    /\ pc' = "sleep"
    /\ events' = Append(events, "fill")
    /\ UNCHANGED <<running, lag, elapsed, updateCount, exc, lag0, calls, dts>>
    /\ UNCHANGED <<frameElapsed, slept, stops, seenVars>>
    /\ UNCHANGED <<prevBuffer, lastCall, lastArgs, screen>>
    /\ UNCHANGED <<termVars, threadVars, keyVars>>

ClearBuffer ==
    /\ pc = "clear"
    /\ buffer' = BlankGrid
    /\ out' = <<>>
    /\ pc' = "sleep"
    /\ events' = Append(events, "fill")
    /\ UNCHANGED <<running, lag, elapsed, updateCount, exc, lag0, calls, dts>>
    /\ UNCHANGED <<frameElapsed, slept, stops, seenVars>>
    /\ UNCHANGED <<prevBuffer, lastCall, lastArgs, screen>>
    /\ UNCHANGED <<termVars, threadVars, keyVars>>

maxFps == 60            \* __init__'s default maxFps
frameDuration == UnitsPerSecond \div maxFps

\* faulty variant of the sleep: the difference is not clamped
SleepForUnclamped(fe) == frameDuration - fe

\* lines 135-136: the duration passed to time.sleep, 0 for no sleep
SleepFor(fe) == IF fe < frameDuration THEN frameDuration - fe ELSE 0

\* lines 133-136: the frame-cap sleep; the iteration has taken fe so far
FrameSleep(F) ==
    /\ pc = "sleep"
    /\ \E fe \in F :
        /\ frameElapsed' = fe
        /\ slept' = SleepFor(fe)
    /\ events' = Append(events, "sleep")
    /\ pc' = "loop"
    /\ UNCHANGED <<stops, seenVars>>
    /\ UNCHANGED <<running, lag, elapsed, updateCount, exc, lag0, calls, dts>>
    /\ UNCHANGED <<termVars, threadVars, keyVars, gridVars>>

\* line 138, stopInputThread line 75: self.running = False
StopFlag ==
    /\ pc = "finally"
    /\ running' = FALSE
    /\ stops' = IF running THEN stops + 1 ELSE stops
    /\ pc' = "join"
    /\ UNCHANGED <<lag, elapsed, updateCount, exc, lag0, calls, dts>>
    /\ UNCHANGED <<frameElapsed, slept, events, seenVars>>
    /\ UNCHANGED <<termVars, threadVars, keyVars, gridVars>>

\* stopInputThread lines 76-77: with a thread handle, join returns once the
\* thread has ended; with None there is no join
Join ==
    /\ pc = "join"
    /\ inputThread = "None" \/ tpc = "dead"
    /\ log' = Append(log, "stop")
    /\ pc' = "restore"
    /\ UNCHANGED <<running, lag, elapsed, updateCount, exc, lag0, calls, dts>>
    /\ UNCHANGED loopVars
    /\ UNCHANGED <<cursor, ttyMode, oldSettings, atexitReg>>
    /\ UNCHANGED <<threadVars, keyVars, gridVars>>

\* lines 96-99: tcsetattr(oldSettings), then show the cursor
restoreTerminal ==
    /\ ttyMode' = oldSettings
    /\ cursor' = "shown"
    /\ log' = log \o <<"restore", "show">>
    /\ UNCHANGED <<oldSettings, atexitReg>>

\* line 139: self.restoreTerminal(); run() then returns or re-raises
RunRestore ==
    /\ pc = "restore"
    /\ restoreTerminal
    /\ pc' = "exiting"
    /\ UNCHANGED <<running, lag, elapsed, updateCount, exc, lag0, calls, dts>>
    /\ UNCHANGED loopVars
    /\ UNCHANGED <<threadVars, keyVars, gridVars>>

\* The process ends after run() (main.py): the atexit handler of line 107
\* runs if it was registered, and the daemon thread goes with the process.
ProcessExit ==
    /\ pc = "exiting"
    /\ IF atexitReg THEN restoreTerminal ELSE UNCHANGED termVars
    /\ tpc' = IF tpc = "none" THEN "none" ELSE "dead"
    /\ tkey' = ""
    /\ tref' = {}
    /\ pc' = "exited"
    /\ UNCHANGED inputThread
    /\ UNCHANGED <<running, lag, elapsed, updateCount, exc, lag0, calls, dts>>
    /\ UNCHANGED loopVars
    /\ UNCHANGED <<keyVars, gridVars>>

(***************************************************************************)
(* The engine used directly, with no run() in progress: the drawing and    *)
(* key-state methods called one at a time on a constructed engine.         *)
(***************************************************************************)
Xs == (0 - 1)..width
Ys == (0 - 1)..height
PixelArgs == {<<"@">>, <<Blank>>, <<"@", "!">>}
TextArgs == {<<"@", "@">>, <<Blank, "@">>, <<"@", Blank, "@">>}

\* the arguments of the recorded calls: one-character strings of two glyphs
DrawChars == {<<"@">>, <<Blank>>}
DrawTexts == {<<"@", "#">>, <<"#", Blank, "@">>}

\* faulty variant of the call of drawPixel: the cell is written to prevBuffer
DrawPixelIntoPrev(rec, A) ==
    /\ pc = "idle"
    /\ \E x \in Xs, y \in Ys, char \in A :
        /\ prevBuffer' = drawPixel(prevBuffer, x, y, char)
        /\ lastArgs' = IF rec THEN [op |-> "drawPixel", x |-> x, y |-> y, text |-> char]
                              ELSE lastArgs
    /\ Ink(prevBuffer') <= MaxInk
    /\ out' = <<>>
    /\ lastCall' = "draw"
    /\ UNCHANGED <<buffer, screen>>
    /\ UNCHANGED <<mainVars, termVars, threadVars, keyVars>>

\* lines 40-42: drawPixel(x, y, char) with char from A; rec says whether
\* the history keeps the arguments
DrawPixelCall(rec, A) ==
    /\ pc = "idle"
    /\ \E x \in Xs, y \in Ys, char \in A :
        /\ buffer' = drawPixel(buffer, x, y, char)
        /\ lastArgs' = IF rec THEN [op |-> "drawPixel", x |-> x, y |-> y, text |-> char]
                              ELSE lastArgs
    /\ Ink(buffer') <= MaxInk
    /\ out' = <<>>
    /\ lastCall' = "draw"
    /\ UNCHANGED <<prevBuffer, screen>>
    /\ UNCHANGED <<mainVars, termVars, threadVars, keyVars>>

\* lines 44-46: drawText(x, y, text) with text from A
DrawTextCall(rec, A) ==
    /\ pc = "idle"
    /\ \E x \in Xs, y \in Ys, text \in A :
        /\ buffer' = drawText(buffer, x, y, text)
        /\ lastArgs' = IF rec THEN [op |-> "drawText", x |-> x, y |-> y, text |-> text]
                              ELSE lastArgs
    /\ Ink(buffer') <= MaxInk
    /\ out' = <<>>
    /\ lastCall' = "draw"
    /\ UNCHANGED <<prevBuffer, screen>>
    /\ UNCHANGED <<mainVars, termVars, threadVars, keyVars>>

ApiDrawPixel == DrawPixelCall(FALSE, PixelArgs)
ApiDrawText == DrawTextCall(FALSE, TextArgs)
RecDrawPixel == DrawPixelCall(TRUE, DrawChars)
RecDrawText == DrawTextCall(TRUE, DrawTexts)

\* buffer.fill(" "), as a game's update calls it (flappyBird.py line 65)
ApiFill ==
    /\ pc = "idle"
    /\ buffer' = BlankGrid
    /\ out' = <<>>
    /\ lastCall' = "draw"
    /\ UNCHANGED <<prevBuffer, lastArgs, screen>>
    /\ UNCHANGED <<mainVars, termVars, threadVars, keyVars>>

\* the escape character, a colour of TetrisGame.colors and the reset
\* trailer, as strings of characters; None is the empty string
Esc == "ESC"
Red == <<Esc, "[", "9", "1", "m">>
ResetStyle == <<Esc, "[", "0", "m">>
Colors == {<<>>, Red}

\* f"{color}{char}\033[0m"
Styled(color, char) == color \o char \o ResetStyle

\* tetris.py lines 117-124: draw_pixel(x, y, char, color) on grid g; the
\* assignment to a cell of the dtype=str array keeps the first character
draw_pixel(g, x, y, char, color) ==
    IF 0 <= x /\ x < width /\ 0 <= y /\ y < height
    THEN IF color # <<>>
         THEN [g EXCEPT ![y][x] = U1(Styled(color, char))]
         ELSE [g EXCEPT ![y][x] = U1(char)]
    ELSE g

\* where the styled cells are drawn: two cells of the grid, one outside
StyleCells == {<<0, 0>>, <<width - 1, height - 1>>, <<width, 0>>}

\* tetris.py lines 117-124: TetrisGame.draw_pixel called on the idle engine
ApiStyledPixel ==
    /\ pc = "idle"
    /\ \E c \in StyleCells, color \in Colors :
        /\ buffer' = draw_pixel(buffer, c[1], c[2], Sprite, color)
        /\ lastArgs' = [op |-> "draw_pixel", x |-> c[1], y |-> c[2],
                        text |-> Sprite, color |-> color]
    /\ out' = <<>>
    /\ lastCall' = "draw"
    /\ UNCHANGED <<prevBuffer, screen>>
    /\ UNCHANGED <<mainVars, termVars, threadVars, keyVars>>

\* lines 48-54: render()
ApiRender ==
    /\ pc = "idle"
    /\ out' = RenderOut(buffer, prevBuffer)
    /\ prevBuffer' = RenderPrev(buffer, prevBuffer)
    /\ buffer' = RenderBuffer(buffer, prevBuffer)
    /\ lastCall' = IF lastCall \in {"render", "render again"} THEN "render again" ELSE "render"
    /\ screen' = Paint(screen, out')
    /\ UNCHANGED lastArgs
    /\ UNCHANGED <<mainVars, termVars, threadVars, keyVars>>

\* lines 65-66 with nothing running beside them: key = c.lower(), add(key)
ApiPress(C) ==
    /\ pc = "idle"
    /\ \E c \in C : heap' = SetAdd(heap, keysPressed, Lower(c))
    /\ rotations' = 0
    /\ UNCHANGED <<keysPressed, keysReleased, rotSnapshot>>
    /\ UNCHANGED <<mainVars, termVars, threadVars, gridVars>>

\* faulty variant of clearKeyStates: pressed is emptied in place, not replaced
clearKeyStatesInPlace ==
    /\ keysReleased' = keysPressed
    /\ keysPressed' = keysPressed
    /\ heap' = [Collect(heap, {keysPressed} \cup Holding) EXCEPT ![keysPressed] = {}]
    /\ rotSnapshot' = Pressed
    /\ rotations' = Min(rotations + 1, 2)

\* lines 85-87: clearKeyStates(), both statements
clearKeyStates ==
    /\ keysReleased' = keysPressed
    /\ keysPressed' = NewSet({keysPressed} \cup Holding)
    /\ heap' = Collect(heap, {keysPressed} \cup Holding)
    /\ rotSnapshot' = Pressed
    /\ rotations' = Min(rotations + 1, 2)

ApiClearKeyStates ==
    /\ pc = "idle"
    /\ clearKeyStates
    /\ UNCHANGED <<mainVars, termVars, threadVars, gridVars>>

(***************************************************************************)
(* Specifications.  Each runs the same program in one environment: the     *)
(* elapsed times the clock can show, what the game's update does, and      *)
(* which characters arrive on stdin.                                       *)
(***************************************************************************)
MainStep(E, cap, B, F) ==
    \/ RunStart
    \/ SetRawMode
    \/ SetRawModeFails
    \/ StartInputThread
    \/ StartInputThreadFails
    \/ LoopTest
    \/ Measure(E, cap)
    \/ Tick(B)
    \/ DrainDone
    \/ RunRender
    \/ RunRenderFails
    \/ Rotate1
    \/ Rotate2
    \/ ClearBuffer
    \/ FrameSleep(F)
    \/ StopFlag
    \/ Join
    \/ RunRestore
    \/ ProcessExit

\* elapsed times of the short clock, and of the clock that can stall
ElapsedShort == {0, 1, tickDuration}
ElapsedStall == {0, 1, Elapsed50ms, Stall10s}

\* elapsed times that make the drain catch up by a second tick
ElapsedCatchUp == {0, 1, 2 * tickDuration}

\* time spent in an outer iteration before the sleep: none worth counting;
\* or less than, as much as, or more than a frame
FrameQuick == {0}
FrameTimes == 0..(frameDuration + 1)

\* the whole program: a game that quits on "q", keys arriving on stdin
Next ==
    \/ MainStep(ElapsedShort, MaxLag, {"pass", "quitOnQ", "raise"}, FrameQuick)
    \/ ThreadTest
    \/ ThreadTimeout
    \/ ThreadRead(RawChars)
    \/ ThreadReadError
    \/ ThreadAdd

Spec == Init /\ [][Next]_vars

\* the same program with both threads scheduled: neither the main thread
\* nor the capture thread is held up forever while it has a step to take
MainNext == MainStep(ElapsedShort, MaxLag, {"pass", "quitOnQ", "raise"}, FrameQuick)
ThreadNext ==
    ThreadTest \/ ThreadTimeout \/ ThreadRead(RawChars) \/ ThreadReadError \/ ThreadAdd

FairSpec == Spec /\ WF_vars(MainNext) /\ WF_vars(ThreadNext)

\* both threads scheduled, and nothing ever arrives on stdin
MainQuiet == MainStep(ElapsedShort, MaxLag, {"pass", "quit", "raise"}, FrameQuick)
ThreadQuiet == ThreadTest \/ ThreadTimeout
NextQuiet == MainQuiet \/ ThreadQuiet

FairSpecQuiet ==
    Init /\ [][NextQuiet]_vars /\ WF_vars(MainQuiet) /\ WF_vars(ThreadQuiet)

\* the loop's timing: a clock that can stall for 10 s, no key arrives
NextTiming ==
    \/ MainStep(ElapsedStall, MaxLagStall, {"pass", "quit", "raise"}, FrameQuick)
    \/ ThreadTest
    \/ ThreadTimeout

SpecTiming == Init /\ [][NextTiming]_vars

\* the grid and the renderer, called directly
NextRender == ApiDrawPixel \/ ApiDrawText \/ ApiFill \/ ApiRender

SpecRender == Init /\ [][NextRender]_vars

\* the key state, called directly: captures and rotations never overlap
NextKeys == ApiPress(ApiChars) \/ ApiClearKeyStates

SpecKeys == Init /\ [][NextKeys]_vars

\* the frames of the loop: games that draw a sprite in update, quit, or are
\* TetrisGame; an iteration takes less or more than a frame; no key arrives
NextFrame ==
    \/ MainStep(ElapsedCatchUp, MaxLag, {"pass", "draw", "quit"}, FrameTimes)
    \/ TetrisUpdate
    \/ ThreadTest
    \/ ThreadTimeout

SpecFrame == Init /\ [][NextFrame]_vars

\* the whole program with caps lock on: only upper-case letters arrive
UpperChars == {"Q", "A"}

NextCaps ==
    \/ MainStep(ElapsedShort, MaxLag, {"pass", "quitOnQ"}, FrameQuick)
    \/ ThreadTest
    \/ ThreadTimeout
    \/ ThreadRead(UpperChars)
    \/ ThreadAdd

SpecCaps == Init /\ [][NextCaps]_vars

\* a game that is over and restarts on "r"; "r" arrives on stdin
RestartChars == {"r"}

NextRestart ==
    \/ MainStep(ElapsedShort, MaxLag, {"pass"}, FrameQuick)
    \/ RestartUpdate
    \/ ThreadTest
    \/ ThreadTimeout
    \/ ThreadRead(RestartChars)
    \/ ThreadAdd

SpecRestart == Init /\ [][NextRestart]_vars

\* a sustained slowdown: iterations that measure more than 5 ticks, and
\* quick ones after it; no key arrives
ElapsedSlow == {1, tickDuration, CatchUpCap * tickDuration + 1, (CatchUpCap + 1) * tickDuration}
MaxLagSlow == (CatchUpCap + MaxLag) * tickDuration

NextSlow ==
    \/ MainStep(ElapsedSlow, MaxLagSlow, {"pass", "quit"}, FrameQuick)
    \/ ThreadTest
    \/ ThreadTimeout

SpecSlow == Init /\ [][NextSlow]_vars

\* a game that quits on "q"; "q" arrives on stdin; iterations with no tick,
\* and iterations that catch up by a second tick
QuitChars == {"q"}

NextQuit ==
    \/ MainStep(ElapsedCatchUp, MaxLag, {"quitOnQ"}, FrameQuick)
    \/ ThreadTest
    \/ ThreadTimeout
    \/ ThreadRead(QuitChars)
    \/ ThreadAdd

SpecQuit == Init /\ [][NextQuit]_vars

\* styled cells: TetrisGame.draw_pixel and render, called directly
NextStyle == ApiStyledPixel \/ ApiFill \/ ApiRender

SpecStyle == Init /\ [][NextStyle]_vars

\* the drawing calls alone, their arguments kept in the history
NextDraw == RecDrawPixel \/ RecDrawText

SpecDraw == Init /\ [][NextDraw]_vars

(***************************************************************************)
(* Properties of the drain loop (SpecTiming).                              *)
(***************************************************************************)
\* the drain of the current outer iteration has ended without an error
DrainOver == pc \in {"render", "rotate1", "rotate2", "clear", "sleep"}

\* lag at the start of the drain, after "lag += elapsed"
DrainStart == lag0 + elapsed

\* C1: in every outer iteration update is invoked at most 5 times, whatever
\* the elapsed time measured; when the lag at the start of the drain is 5
\* ticks or more, exactly 5 ticks fire and the rest of the lag,
\* lag - 5 * tickDuration, is kept.
C1_CatchUpCap ==
    /\ calls <= 5
    /\ updateCount <= 5
    /\ (DrainOver /\ DrainStart >= 5 * tickDuration) =>
            /\ calls = 5
            /\ lag = DrainStart - 5 * tickDuration

\* a 10 s stall has been measured, 5 ticks fired, the rest of the lag is kept
C1_Witness ==
    /\ pc = "render"
    /\ elapsed = Stall10s
    /\ calls = 5
    /\ lag = lag0 + Stall10s - 5 * tickDuration
    /\ lag > Stall10s - 5 * tickDuration - 1

\* C2: with lag L at the start of the drain, update is called exactly
\* min(5, floor(L / tickDuration)) times, each time with tickDuration; lag
\* after the drain is L less that many tick durations, so that then
\* lag < tickDuration or exactly 5 ticks fired.
C2_DrainCount ==
    /\ dts \subseteq {tickDuration}
    /\ calls > 0 => dts = {tickDuration}
    /\ DrainOver =>
            /\ calls = Min(5, DrainStart \div tickDuration)
            /\ lag = DrainStart - calls * tickDuration
            /\ lag < tickDuration \/ calls = 5
            /\ lag >= 0

\* a drain of 3 ticks that leaves a lag of less than one tick
C2_Witness ==
    /\ pc = "render"
    /\ calls = 3
    /\ DrainStart = 3 * tickDuration + 1
    /\ lag = 1

\* C3 as claimed: at tick rate 60, from lag 0, an elapsed time of 0.05 s
\* fires exactly 2 ticks and keeps one tick duration (0.0167 s) of lag.
C3_TwoTicks ==
    (DrainOver /\ lag0 = 0 /\ elapsed = Elapsed50ms) =>
        /\ calls = 2
        /\ lag = tickDuration

\* C3, amended: at tick rate 60, from lag 0, an elapsed time of 0.05 s is
\* three tick durations: exactly 3 ticks fire, the 4th does not, and no lag
\* is left over.
C3_ThreeTicks ==
    (tickRate = 60 /\ DrainOver /\ lag0 = 0 /\ elapsed = Elapsed50ms) =>
        /\ calls = 3
        /\ updateCount = 3
        /\ lag = 0

\* the drain after measuring 0.05 s from lag 0 has ended
C3_Witness ==
    /\ pc = "render"
    /\ lag0 = 0
    /\ elapsed = Elapsed50ms
    /\ calls = 3

(***************************************************************************)
(* Properties of the terminal session (Spec, FairSpec).                    *)
(***************************************************************************)
LoopPcs == {"loop", "measure", "drain", "render", "rotate1", "rotate2", "clear", "sleep"}

\* run() entered its main loop (the capture thread was started) and left it
LoopLeft ==
    /\ \E i \in 1..Len(log) : log[i] = "start"
    /\ pc \notin LoopPcs

\* the capture thread was stopped, then the terminal mode restored and the
\* cursor shown, and the terminal is still so
Restored ==
    /\ ttyMode = "cooked"
    /\ cursor = "shown"
    /\ \E i \in 1..(Len(log) - 2) :
        /\ log[i] = "stop"
        /\ log[i + 1] = "restore"
        /\ log[i + 2] = "show"

\* C4: once run() has entered its main loop, leaving it for any reason
\* (running cleared, update or render raising) is always followed by the
\* capture thread being stopped and then the terminal mode restored and the
\* cursor shown.
C4_ExitRestores == LoopLeft ~> Restored

\* update raised, and the session has been torn down in order
C4_Witness ==
    /\ pc = "exiting"
    /\ exc = "update"
    /\ Restored

\* C5: on every exit path of run(), a failure to enter raw mode or to start
\* the capture thread included, the process ends with the cursor shown and
\* the terminal in its original mode; after a failure to enter raw mode no
\* session was started: no capture thread, no update, running not left
\* true.
C5_EveryExitRestores ==
    pc = "exited" =>
        /\ cursor = "shown"
        /\ ttyMode = oldSettings
        /\ exc = "setraw" =>
                /\ ~running
                /\ tpc = "none"
                /\ calls = 0

(***************************************************************************)
(* Properties of the key state.                                            *)
(***************************************************************************)
\* the capture thread completes self.keysPressed.add(key)
CaptureStep == tpc = "add" /\ tpc' = "test"

\* C6: whatever the interleaving of the capture thread with the main
\* thread's clearKeyStates, a captured key is kept for the next frame: once
\* added it is reported by isKeyPressed, and the capture changes nothing in
\* released (the key is neither lost nor seen in a second window).
C6_CaptureKept ==
    [][CaptureStep => (tkey \in heap'[keysPressed'] /\ heap'[keysReleased'] = Released)]_vars

\* C7: every key in keysReleased was in keysPressed when clearKeyStates
\* last ran: keysReleased changes through clearKeyStates alone, and the
\* capture thread never adds a key to the set that is keysReleased.
C7_ReleasedWasPressed == Released \subseteq rotSnapshot

\* C8: with no capture in between, a pressed key k has isKeyPressed(k)
\* true; after one clearKeyStates isKeyPressed(k) is false and
\* isKeyReleased(k) is true; after a second one both are false: two
\* clearKeyStates in a row leave pressed = {} and released = {}.
C8_Rotation ==
    \A k \in Keys :
        /\ rotations = 1 => (~isKeyPressed(k) /\ (isKeyReleased(k) <=> k \in rotSnapshot))
        /\ rotations = 2 => (~isKeyPressed(k) /\ ~isKeyReleased(k))
        /\ (rotations = 0 /\ k \in rotSnapshot) => isKeyReleased(k)

\* "q" was pressed and one clearKeyStates has run since
C8_Witness ==
    /\ rotations = 1
    /\ rotSnapshot = {"q"}
    /\ isKeyReleased("q")
    /\ ~isKeyPressed("q")

(***************************************************************************)
(* Properties of the renderer (SpecRender).                                *)
(***************************************************************************)
\* the step is a call of render()
RenderStep == lastCall' \in {"render", "render again"}

\* how many of the emissions e are addressed to cell (x, y)
EmittedAt(e, x, y) ==
    Cardinality({i \in 1..Len(e) : e[i].row = y + 1 /\ e[i].col = x + 1})

\* C9: render() emits output for exactly the positions (x, y) at which
\* buffer[y, x] differs from prevBuffer[y, x], once each and for no other
\* position, each as a cursor-position command with row y + 1 and column
\* x + 1 followed by the current content of the cell.
C9_DiffEmitted ==
    [][RenderStep =>
        /\ \A x \in Cols, y \in Rows :
            EmittedAt(out', x, y) = IF buffer[y][x] # prevBuffer[y][x] THEN 1 ELSE 0
        /\ \A i \in 1..Len(out') :
            /\ out'[i].row \in 1..height
            /\ out'[i].col \in 1..width
            /\ out'[i].glyph = buffer[out'[i].row - 1][out'[i].col - 1]]_vars

\* only "@" at (2, 1) was drawn: one cell is emitted, at row 2, column 3
C9_Witness ==
    /\ lastCall = "render"
    /\ buffer[1][2] = "@"
    /\ Ink(buffer) = 1
    /\ out = <<[row |-> 2, col |-> 3, glyph |-> "@"]>>

\* C10: after render() prevBuffer equals buffer as it stood at the start of
\* the call and buffer is unchanged (a copy, not a swap); a second render()
\* with no change to buffer in between emits nothing and changes nothing.
C10_CopyNotSwap ==
    [][RenderStep =>
        /\ prevBuffer' = buffer
        /\ buffer' = buffer
        /\ lastCall' = "render again" =>
                /\ out' = <<>>
                /\ prevBuffer' = prevBuffer]_vars

\* render() was called twice in a row on a grid that is not blank
C10_Witness ==
    /\ lastCall = "render again"
    /\ Ink(buffer) > 0
    /\ prevBuffer = buffer
    /\ out = <<>>

(***************************************************************************)
(* Properties of the drawing calls (SpecDraw).                             *)
(***************************************************************************)
\* the cell (x, y) is in [0, width) x [0, height)
InBounds(x, y) == x \in Cols /\ y \in Rows

\* no character of the recorded call a addresses a cell of the grid
AllOutside(a) ==
    IF a.op = "drawPixel" THEN ~InBounds(a.x, a.y)
    ELSE \A i \in 1..Len(a.text) : ~InBounds(a.x + (i - 1), a.y)

\* C11: a drawPixel at (x, y) outside [0, width) x [0, height), negative
\* coordinates included, leaves every cell of buffer and of prevBuffer as it
\* was and raises no error; so does a drawText all of whose characters fall
\* outside the grid.
C11_OutsideIgnored ==
    [][(lastArgs'.op # "none" /\ AllOutside(lastArgs')) =>
            /\ buffer' = buffer
            /\ prevBuffer' = prevBuffer
            /\ exc' = "none"]_vars

\* a glyph was drawn at a negative column of a row of the grid, and the
\* grid still shows what was drawn before
C11_Witness ==
    /\ lastArgs.op = "drawPixel"
    /\ lastArgs.x < 0
    /\ lastArgs.y \in Rows
    /\ lastArgs.text # <<Blank>>
    /\ Ink(buffer) > 0

\* C12: drawText(x, y, text) sets buffer[y, x + i] to text[i] (i from 0) for
\* exactly the i with (x + i, y) in bounds, skips the others without error,
\* and leaves every other cell as it was: nothing wraps to another row.
C12_TextClipped ==
    [][lastArgs'.op = "drawText" =>
            /\ \A y \in Rows, x \in Cols :
                    buffer'[y][x] =
                        IF y = lastArgs'.y /\ (x - lastArgs'.x + 1) \in 1..Len(lastArgs'.text)
                        THEN lastArgs'.text[x - lastArgs'.x + 1]
                        ELSE buffer[y][x]
            /\ exc' = "none"]_vars

\* a two-character text started in the last column: its first character is
\* there, its second was skipped
C12_Witness ==
    /\ lastArgs.op = "drawText"
    /\ lastArgs.x = width - 1
    /\ lastArgs.y \in Rows
    /\ Len(lastArgs.text) = 2
    /\ lastArgs.text[1] # Blank
    /\ buffer[lastArgs.y][width - 1] = lastArgs.text[1]
    /\ Ink(buffer) = 1

(***************************************************************************)
(* Properties of the frames of the loop (SpecFrame).                       *)
(***************************************************************************)
\* the drain loop is about to call update
UpdateDue == pc = "drain" /\ DrainGuard(lag, updateCount)

\* C13: the engine clears the current grid once per rendered frame, after
\* the frame's diff was flushed, so that every call of update, the 2nd to
\* 5th catch-up tick of one outer iteration included, starts with the
\* current grid entirely blank.
C13_BlankAtEveryTick == UpdateDue => buffer = BlankGrid

\* n calls of update
Updates(n) == [i \in 1..n |-> "update"]

\* what run() calls after the drain, in the order of lines 127-136
FrameOrder == <<"render", "clearKeyStates", "fill", "sleep">>

\* how many times call c is in the sequence s
Count(s, c) == Cardinality({i \in 1..Len(s) : s[i] = c})

\* C14: in every outer iteration of run() the calls come in this order: all
\* update calls of the drain, then exactly one render, then exactly one
\* key-state rotation, then the buffer clear, then the frame-cap sleep; no
\* update comes after render before the next time measurement.
C14_FrameOrder ==
    /\ \E k \in 0..Len(FrameOrder) : events = Updates(calls) \o SubSeq(FrameOrder, 1, k)
    /\ calls <= CatchUpCap
    /\ ("sleep" \in {events[i] : i \in 1..Len(events)}) => events = Updates(calls) \o FrameOrder
    /\ (pc = "loop" /\ log # <<>> /\ events # <<>>) => events = Updates(calls) \o FrameOrder

\* an outer iteration with two ticks has run to its end
C14_Witness ==
    /\ pc = "loop"
    /\ events = Updates(2) \o FrameOrder

\* the calls this step adds to those of the current outer iteration
NewCalls == {events'[i] : i \in (Len(events) + 1)..Len(events')}

\* C15: render and the key-state rotation (clearKeyStates) are called
\* exactly once per rendered frame, and by the loop of run() only: no call
\* of either comes from inside a game's update.
C15_OnlyTheLoop ==
    /\ [][("render" \in NewCalls => pc = "render")
            /\ ("clearKeyStates" \in NewCalls => pc = "rotate1")
            /\ ("update" \in NewCalls => NewCalls = {"update"})]_vars
    /\ [](pc \in {"clear", "sleep"} =>
            /\ Count(events, "render") = 1
            /\ Count(events, "clearKeyStates") = 1)

\* a frame with two ticks: render and clearKeyStates were called once
\* each, by run(), and the buffer clear is next
C15_Witness ==
    /\ pc = "clear"
    /\ calls = 2
    /\ events = Updates(2) \o <<"render", "clearKeyStates">>

\* C20: at the end of each outer iteration the loop sleeps for
\* max(0, frameDuration - time spent in the iteration): never a negative
\* time, never more than frameDuration, and not at all when the iteration
\* took frameDuration or longer.
C20_FrameCap ==
    /\ slept >= 0
    /\ slept <= frameDuration
    /\ Count(events, "sleep") = 1 =>
            /\ slept = (IF frameDuration - frameElapsed > 0
                        THEN frameDuration - frameElapsed ELSE 0)
            /\ frameElapsed >= frameDuration => slept = 0

\* an iteration took longer than a frame and did not sleep
C20_Witness ==
    /\ pc = "loop"
    /\ Count(events, "sleep") = 1
    /\ frameElapsed > frameDuration
    /\ slept = 0

(***************************************************************************)
(* Properties of the session's end (Spec, FairSpecQuiet).                  *)
(***************************************************************************)
\* C16: over the lifetime of an engine object running goes from true to
\* false once, by the game's quit or by a fatal input or terminal error, and
\* never back to true: the session is Idle, then Running, then Stopped, and
\* a run() that has ended for whatever reason has not left it Running.
C16_StopsOnce ==
    /\ stops <= 1
    /\ stops = 0 => (running <=> pc # "idle")
    /\ stops = 1 => ~running
    /\ pc \in {"exiting", "exited"} => ~running

\* running is false and the capture thread has not ended
Stopping == ~running /\ tpc \in {"test", "poll", "add"}

\* C17: once running is false the capture thread sees it and ends, with no
\* further input needed (its poll times out), so that the join of
\* stopInputThread returns and restoreTerminal is executed: no step of the
\* shutdown waits for ever.
C17_ShutdownEnds ==
    /\ Stopping ~> (tpc = "dead")
    /\ (pc = "finally") ~> (pc = "exiting" /\ Restored)

\* the game quit, the thread ended on a poll timeout, the join has returned
C17_Witness ==
    /\ pc = "restore"
    /\ tpc = "dead"
    /\ exc = "none"
    /\ ~running

\* C18: an input-stream error in one poll cycle of the capture loop is
\* ignored and capture goes on; a lasting failure sets running to false:
\* the main loop never runs on with a dead capture thread.
C18_NoDeadCapture == (tpc = "dead" /\ pc \in LoopPcs) => ~running

(***************************************************************************)
(* Properties of the two grids (SpecRender).                               *)
(***************************************************************************)
\* grid g has height rows of width cells
DimsOK(g) ==
    /\ DOMAIN g = Rows
    /\ \A y \in Rows : DOMAIN g[y] = Cols

\* C19: buffer and prevBuffer always have the dimensions height x width
\* given at construction; drawPixel and drawText change buffer only, and
\* prevBuffer is changed by render only.
C19_GridsKept ==
    /\ [](DimsOK(buffer) /\ DimsOK(prevBuffer))
    /\ [][lastCall' = "draw" => prevBuffer' = prevBuffer]_vars
    /\ [][prevBuffer' # prevBuffer => RenderStep]_vars

\* something was drawn after a render of a grid that was not blank: the
\* rendered frame is still in prevBuffer
C19_Witness ==
    /\ lastCall = "draw"
    /\ Ink(prevBuffer) > 0
    /\ Ink(buffer) > 0
    /\ buffer # prevBuffer

(***************************************************************************)
(* Properties of styled cells (SpecStyle).                                 *)
(***************************************************************************)
\* the last drawing call was a draw_pixel with a colour, at a cell of the grid
StyledDrawn ==
    /\ lastArgs.op = "draw_pixel"
    /\ lastArgs.color # <<>>
    /\ InBounds(lastArgs.x, lastArgs.y)

\* C21: a cell drawn with a style tag (a game's draw_pixel with a colour) is
\* stored in the grid, and emitted by render, as style escape + glyph +
\* style-reset trailer: glyph and style survive the fixed-size grid cell.
C21_StyleKept ==
    /\ (StyledDrawn /\ lastCall = "draw") =>
            <<buffer[lastArgs.y][lastArgs.x]>> = Styled(lastArgs.color, lastArgs.text)
    /\ (StyledDrawn /\ lastCall = "render" /\ EmittedAt(out, lastArgs.x, lastArgs.y) = 1) =>
            \E i \in 1..Len(out) :
                /\ out[i].row = lastArgs.y + 1
                /\ out[i].col = lastArgs.x + 1
                /\ <<out[i].glyph>> = Styled(lastArgs.color, lastArgs.text)

RestartStep == Len(log') > Len(log) /\ log'[Len(log')] = "restart"

\* the game has been restarted in this session
Restarted == \E i \in 1..Len(log) : log[i] = "restart"

\* C23: a restart (the game re-initialised in place on the restart key)
\* resets the game's state and leaves the engine session as it was: running
\* stays true, the capture-thread handle, the key sets, the grids' relation
\* to the terminal and the saved terminal settings are kept, and the loop
\* keeps running after it.
C23_RestartKeepsSession ==
    /\ [][RestartStep =>
            /\ running' = running
            /\ inputThread' = inputThread
            /\ keysPressed' = keysPressed /\ keysReleased' = keysReleased
            /\ heap' = heap
            /\ prevBuffer' = prevBuffer
            /\ oldSettings' = oldSettings]_vars
    /\ []((Restarted /\ pc \in LoopPcs) => running)

\* C25: the settings restoreTerminal applies are always those the terminal
\* had before the session entered raw mode: oldSettings is never captured
\* again or overwritten during a session, not by a restart either, and a
\* restored terminal is in its original mode.
C25_OriginalSettings ==
    /\ oldSettings = "cooked"
    /\ pc = "exited" /\ atexitReg => ttyMode = "cooked"

(***************************************************************************)
(* Properties of a sustained slowdown (SpecSlow).                          *)
(***************************************************************************)
\* C24: lag is never discarded and never negative: an outer iteration that
\* measures more than 5 tick durations leaves lag strictly greater than it
\* found it (so lag grows without bound while the slowdown lasts), and
\* after the slowdown the loop goes on firing the full 5 ticks in every
\* iteration until the lag kept is drained.
C24_LagKept ==
    /\ lag >= 0
    /\ DrainOver =>
            /\ lag = DrainStart - calls * tickDuration
            /\ elapsed > CatchUpCap * tickDuration => (calls = CatchUpCap /\ lag > lag0)
            /\ DrainStart >= CatchUpCap * tickDuration => calls = CatchUpCap
            /\ calls < CatchUpCap => lag < tickDuration

\* the slowdown is over (one clock unit was measured), and the lag it left
\* still makes this iteration fire 5 ticks
C24_Witness ==
    /\ pc = "render"
    /\ elapsed = 1
    /\ lag0 >= CatchUpCap * tickDuration
    /\ calls = CatchUpCap
    /\ lag > 0

(***************************************************************************)
(* Properties of the terminal screen (SpecRender, SpecFrame).              *)
(***************************************************************************)
\* C26: diff rendering is equivalent to a full repaint: with the terminal
\* screen a grid that starts blank and is changed by render's emissions
\* only, after every render(), in any sequence of draw, clear and render
\* calls, the screen equals buffer and equals prevBuffer cell for cell.
C26_ScreenIsBuffer ==
    lastCall \in {"render", "render again"} =>
        /\ \A y \in Rows, x \in Cols : screen[y][x] = buffer[y][x]
        /\ \A y \in Rows, x \in Cols : screen[y][x] = prevBuffer[y][x]

\* a frame was rendered, the grid was cleared and one glyph drawn, and the
\* next render blanked the old glyph on the screen and showed the new one
C26_Witness ==
    /\ lastCall = "render"
    /\ Len(out) = 2
    /\ Ink(screen) = 1
    /\ screen = buffer

(***************************************************************************)
(* Properties of keys and ticks (SpecQuit).                                *)
(***************************************************************************)
\* C27: the key state is rotated once per outer iteration whatever the
\* number of ticks: in an iteration with no tick the keys in pressed are
\* moved to released with no update call having seen them pressed (the
\* game that quits on "q" is still running), while the keys captured before
\* an iteration with k ticks are seen pressed by all k update calls.
C27_RotationIgnoresTicks ==
    /\ pc \in {"clear", "sleep"} =>
            /\ Count(events, "clearKeyStates") = 1
            /\ rotSnapshot \subseteq Released
    /\ (pc \in {"clear", "sleep"} /\ calls = 0 /\ rotSnapshot # {}) => running
    /\ (DrainOver /\ calls >= 1) => atDrain \subseteq seenAll
    /\ (DrainOver /\ calls >= 1 /\ atDrain # {}) => ~running

\* "q" was captured in an iteration with no tick: it is in released only,
\* and the game that quits on "q" is still running
C27_Witness ==
    /\ pc = "sleep"
    /\ calls = 0
    /\ rotSnapshot = {"q"}
    /\ Released = {"q"}
    /\ Pressed = {}
    /\ running

(***************************************************************************)
(* Frames without a tick (SpecFrame).                                      *)
(***************************************************************************)

\* the render of an outer iteration whose drain ran no update
IdleRender == pc = "render" /\ pc' = "rotate1" /\ calls = 0

\* the rest of an outer iteration whose drain ran no update, after its render
IdleRendered == pc \in {"rotate1", "rotate2", "clear", "sleep"} /\ calls = 0

\* C28: in an outer iteration where zero ticks fire, render is called with
\* an all-blank buffer: it emits a blank for every cell that was non-blank
\* in prevBuffer (and nothing else) and leaves prevBuffer all-blank, so the
\* previously drawn frame is erased from the terminal, which stays blank for
\* the rest of the iteration.
C28_IdleFrameErases ==
    /\ [][IdleRender =>
            /\ buffer = BlankGrid
            /\ \A y \in Rows, x \in Cols :
                EmittedAt(out', x, y) = IF prevBuffer[y][x] # Blank THEN 1 ELSE 0
            /\ \A i \in 1..Len(out') : out'[i].glyph = Blank
            /\ prevBuffer' = BlankGrid
            /\ screen' = BlankGrid]_vars
    /\ [](IdleRendered => (screen = BlankGrid /\ prevBuffer = BlankGrid))

\* a frame without a tick was rendered after a drawn one: blanks went out
\* and the terminal is blank again
C28_Witness ==
    /\ pc = "rotate1"
    /\ calls = 0
    /\ Len(out) >= 1
    /\ screen = BlankGrid
    /\ prevBuffer = BlankGrid

(***************************************************************************)
(* The iteration in which the game quits (SpecSlow).                       *)
(***************************************************************************)

\* how much of FrameOrder run() has called when it is at p
FrameDone(p) ==
    CASE p = "drain" -> 0
      [] p = "render" -> 0
      [] p = "rotate1" -> 1
      [] p \in {"rotate2", "clear"} -> 2
      [] p = "sleep" -> 3
      [] OTHER -> 4

\* C29: running is tested at the top of the outer loop only: after an
\* update call has cleared running, the catch-up ticks that remain in that
\* drain (up to the cap of 5 in all) are still invoked, then render, the
\* key rotation and the buffer clear each run once more, and the loop then
\* ends without another outer iteration being started.
C29_StopEndsIteration ==
    (stoppedAt > 0 /\ exc = "none") =>
        /\ ~running
        /\ stoppedAt <= calls
        /\ pc # "measure"
        /\ pc # "drain" => calls = Min(CatchUpCap, DrainStart \div tickDuration)
        /\ events = Updates(calls) \o SubSeq(FrameOrder, 1, FrameDone(pc))

\* the first update of a drain cleared running, four more ticks of that
\* drain were called with lag still left, the frame was finished and the
\* loop has ended
C29_Witness ==
    /\ pc = "finally"
    /\ exc = "none"
    /\ stoppedAt = 1
    /\ calls = CatchUpCap
    /\ lag >= tickDuration
    /\ events = Updates(CatchUpCap) \o FrameOrder

====
